---- MODULE Spec2Model ----
(***************************************************************************)
(* Model of src/src/stats/Telemetry.ts: one Telemetry object, the sessions *)
(* started by report(), their timers, the release closures installed on    *)
(* the stats objects, and the shared channel (a WebSocketReliable or a     *)
(* series of fetch() requests guarded by an AbortController).              *)
(*                                                                         *)
(* The timer callback is asynchronous.  Its synchronous prefix (the        *)
(* frequency-0 self stop and the call of stats.serialize()) is the action  *)
(* Tick; the code after "await stats.serialize()" is the action Settle.    *)
(* Between the two any other callback may run.                             *)
(*                                                                         *)
(* What a callback emits (log lines, calls of ws.close() and abort(), the  *)
(* body handed to ws.send() or fetch(), what reaches the wire) is recorded *)
(* in the variable last, which describes the step just taken.              *)
(***************************************************************************)
EXTENDS Integers, Sequences, FiniteSets, TLC

\* ---------------------------------------------------------------- bounds
\* report() calls made on the Telemetry object
MaxSessions == 2
\* timer firings, over all sessions
MaxTicks == 2

SessionIds == 1..MaxSessions

\* ---------------------------------------------------------------- inputs
\* the IStats objects handed to report(), in the order of their first use
SourceOrder == <<"StatsA", "StatsB">>
Sources == {SourceOrder[i] : i \in DOMAIN SourceOrder}
\* report(stats, frequency): 0 reports once, anything else periodically
Frequencies == {0, 1}
\* url.protocol of the constructor's argument, as its characters
Protocols ==
    { <<"w", "s", ":">>,
      <<"h", "t", "t", "p", "s", ":">>,
      <<"f", "t", "p", ":">> }
\* more constructor arguments: both schemes of either family and two others
Schemes ==
    Protocols \cup { <<"w", "s", "s", ":">>,
                     <<"h", "t", "t", "p", ":">>,
                     <<"f", "i", "l", "e", ":">> }
\* what stats.serialize() resolves to
Payloads ==
    { [type |-> "ArrayBuffer", val |-> <<"b">>],
      [type |-> "string", val |-> <<"s">>],
      [type |-> "object", val |-> <<"o">>] }
\* how stats.serialize() settles: rejected with a falsy value ("not ready"),
\* rejected with an error, or resolved with a payload
Outcomes ==
    {[kind |-> "notready"], [kind |-> "error"]}
        \cup {[kind |-> "data", data |-> d] : d \in Payloads}

VARIABLES
    built,       \* the constructor returned (FALSE: it threw)
    url,         \* this._url, reduced to its protocol
    reporting,   \* this._reporting
    ws,          \* this._ws and the state of the WebSocketReliable
    fetch,       \* this._fetch: the current AbortController's id, 0 = undefined
    aborted,     \* the AbortControllers whose signal is aborted
    requests,    \* the fetch() requests in flight
    sessions,    \* one closure environment per report() call
    onRelease,   \* stats.onRelease: the session whose closure is installed, 0 = none
    serializing, \* per session, the ticks suspended in "await stats.serialize()"
    hist,        \* the run so far, counted (not program state)
    last         \* the step just taken and what it emitted

vars ==
    << built, url, reporting, ws, fetch, aborted, requests, sessions,
       onRelease, serializing, hist, last >>

\* ------------------------------------------------------------ constructor
StartsWith(str, prefix) ==
    /\ Len(str) >= Len(prefix)
    /\ SubSeq(str, 1, Len(prefix)) = prefix

\* a test for the one scheme "ws:"
IsWsProtocol_Exact(protocol) == protocol = <<"w", "s", ":">>

\* line 64: url.protocol.startsWith('ws')
IsWsProtocol(protocol) == StartsWith(protocol, <<"w", "s">>)

\* line 66: url.protocol.startsWith('http')
IsHttpProtocol(protocol) == StartsWith(protocol, <<"h", "t", "t", "p">>)

\* lines 64-68: the constructor throws for any other protocol
Supported(protocol) == IsWsProtocol(protocol) \/ IsHttpProtocol(protocol)

\* new WebSocketReliable(): no url given, so nothing is opened
NewWebSocketReliable ==
    [defined |-> TRUE, closed |-> TRUE, opened |-> FALSE, queueing |-> << >>]

\* this._ws stays undefined
NoWebSocket ==
    [defined |-> FALSE, closed |-> TRUE, opened |-> FALSE, queueing |-> << >>]

\* no body was handed to the channel
NoMessage == [n |-> 0, body |-> << >>, mime |-> ""]

\* serialize() resolved with nothing
NoData == [type |-> "", val |-> << >>]

\* a step that emitted nothing
Quiet ==
    [op |-> "init",          \* the callback that ran
     s |-> 0,                \* its session
     serialized |-> "",      \* how stats.serialize() settled
     data |-> NoData,        \* what it resolved with
     out |-> "",             \* how the callback ended
     closes |-> 0,           \* calls of ws.close() and closing abort() it made
     opens |-> 0,            \* calls of ws.open() it made
     logs |-> << >>,         \* the calls of onLog / onError it made
     message |-> NoMessage,  \* the message it handed to ws.send() / fetch()
     cancelled |-> {},       \* the requests it cancelled
     wire |-> << >>]         \* the messages it put on the wire / delivered

\* lines 61-71: new Telemetry(url); built is FALSE when the constructor threw
Construct(protocol) ==
    /\ built = Supported(protocol)
    /\ url = protocol
    /\ reporting = 0
    /\ ws = IF IsWsProtocol(protocol) THEN NewWebSocketReliable ELSE NoWebSocket
    /\ fetch = 0
    /\ aborted = {}
    /\ requests = {}
    /\ sessions = << >>
    /\ onRelease = [src \in Sources |-> 0]
    /\ serializing = [s \in SessionIds |-> 0]
    /\ hist = [sent |-> 0,       \* messages handed to ws.send() / fetch()
               fired |-> 0,      \* timer firings
               ticks |-> [s \in SessionIds |-> 0],  \* ... per session
               stops |-> [s \in SessionIds |-> 0],  \* decrements per session
               closed |-> 0,     \* releases that closed the channel
               signalled |-> {}] \* sessions whose stats fired onRelease
    /\ last = Quiet

Init == \E protocol \in Protocols : Construct(protocol)

\* construction from any of the schemes
ConstructInit == \E protocol \in Schemes : Construct(protocol)

\* ------------------------------------------------- WebSocketReliable, fetch
\* WebSocketReliable.open(url): a connection attempt starts
WsOpen(w) == [w EXCEPT !.closed = FALSE, !.opened = FALSE]

\* WebSocketReliable.close(): no-op when closed, else drops connection and queue
WsClose(w) ==
    IF w.closed THEN w
    ELSE [w EXCEPT !.closed = TRUE, !.opened = FALSE, !.queueing = << >>]

\* WebSocketReliable.send(message) throws when the socket is closed
WsSendThrows(w) == w.closed

\* WebSocketReliable.send(message): queued until the connection is open; the
\* queue holds the messages by their number
WsSend(w, message) ==
    IF w.opened THEN w ELSE [w EXCEPT !.queueing = Append(@, message.n)]

\* what WebSocketReliable.send(message) puts on the wire at once
WsWire(w, message) == IF w.opened THEN <<message.n>> ELSE << >>

\* AbortController.abort(): the signal becomes aborted ...
AbortSignals(set, token) == set \cup {token}

\* ... and the request in flight that was started with the signal is cancelled
Cancelled(reqs, token) == {r \in reqs : r.token = token}

\* fetch(url, {signal}): rejected at once when the signal is already aborted;
\* a request is kept by the number of its message and the session of its tick
Fetch(reqs, token, s, message, set) ==
    IF token \in set THEN reqs
    ELSE reqs \cup {[token |-> token, n |-> message.n, s |-> s]}

\* --------------------------------------------------------------- report()
\* a report() that forgets to count its session
Increment_Forgotten(n) == n

\* line 113: ++this._reporting
Increment(n) == n + 1

\* line 102: frequency ? setInterval : setTimeout
Repeats(frequency) == frequency # 0

\* the stats objects are interchangeable: a new one is the next in SourceOrder
NextSource(stats) ==
    \E i \in DOMAIN SourceOrder :
        /\ SourceOrder[i] = stats
        /\ \A j \in 1..(i - 1) : onRelease[SourceOrder[j]] # 0

\* lines 78-116
Report(stats, frequency) ==
    /\ built
    /\ Len(sessions) < MaxSessions
    /\ NextSource(stats)
    /\ LET s == Len(sessions) + 1 IN
        /\ sessions' = Append(sessions,
                [stats |-> stats, frequency |-> frequency,
                 release |-> TRUE, interval |-> "armed"])
        /\ onRelease' = [onRelease EXCEPT ![stats] = s]
        /\ reporting' = Increment(reporting)
        /\ last' = [Quiet EXCEPT
                !.op = "report", !.s = s,
                !.logs = <<[sink |-> "onLog", text |-> "Start", name |-> stats]>>]
    /\ UNCHANGED << built, url, ws, fetch, aborted, requests, serializing, hist >>

\* ------------------------------------------------- the release closure
\* a closure without its one-shot guard
ReleaseGuard_Always(release) == TRUE

\* line 83: if (!release) return
ReleaseGuard(release) == release

\* line 89: --this._reporting
Decrement(n) == n - 1

\* a closure that closes the connection on every stop
StillReporting_Never(n) == FALSE

\* a closure that closes the connection while one session is left
StillReporting_OffByOne(n) == n > 1

\* line 89: if (--this._reporting > 0) return, n the decremented count
StillReporting(n) == n > 0

\* the closure of session s runs past its guard
Runs(s) == ReleaseGuard(sessions[s].release)

\* the closure of session s reaches "close useless connection"
Closing(s) == Runs(s) /\ ~StillReporting(Decrement(reporting))

\* lines 94 and 97: the calls of ws.close() and this._fetch.abort() it makes
CloseCalls(s) ==
    IF Closing(s)
    THEN (IF ws.defined THEN 1 ELSE 0) + (IF fetch # 0 THEN 1 ELSE 0)
    ELSE 0

\* lines 86-87: release = undefined; clearInterval(interval)
RelSessions(s) ==
    IF Runs(s)
    THEN [sessions EXCEPT ![s].release = FALSE, ![s].interval = "cleared"]
    ELSE sessions

\* line 89
RelReporting(s) == IF Runs(s) THEN Decrement(reporting) ELSE reporting

\* line 88: this.onLog('Stop ' + name + ' reporting')
RelLogs(s) ==
    IF Runs(s)
    THEN <<[sink |-> "onLog", text |-> "Stop", name |-> sessions[s].stats]>>
    ELSE << >>

\* lines 93-95
RelWs(s) == IF Closing(s) /\ ws.defined THEN WsClose(ws) ELSE ws

\* lines 96-98
RelAborted(s) ==
    IF Closing(s) /\ fetch # 0 THEN AbortSignals(aborted, fetch) ELSE aborted

RelCancelled(s) ==
    IF Closing(s) /\ fetch # 0 THEN Cancelled(requests, fetch) ELSE {}

\* the counts after one invocation of the closure of session s
RelHist(s) ==
    [hist EXCEPT
        !.stops = [@ EXCEPT ![s] = IF Runs(s) THEN @ + 1 ELSE @],
        !.closed = IF CloseCalls(s) > 0 THEN @ + 1 ELSE @]

\* lines 82-99: one invocation of the closure of session s, as a step
Released(op, s) ==
    [Quiet EXCEPT
        !.op = op, !.s = s,
        !.out = IF Runs(s) THEN "stop" ELSE "noop",
        !.closes = CloseCalls(s),
        !.logs = RelLogs(s),
        !.cancelled = {r.n : r \in RelCancelled(s)}]

\* the stats object fires its release signal: stats.onRelease()
Release(stats) ==
    /\ built
    /\ onRelease[stats] # 0
    /\ LET s == onRelease[stats] IN
        /\ sessions' = RelSessions(s)
        /\ reporting' = RelReporting(s)
        /\ ws' = RelWs(s)
        /\ aborted' = RelAborted(s)
        /\ requests' = requests \ RelCancelled(s)
        /\ hist' = [RelHist(s) EXCEPT
                !.signalled = @ \cup
                    {t \in 1..Len(sessions) : sessions[t].stats = stats}]
        /\ last' = Released("release", s)
    /\ UNCHANGED << built, url, fetch, onRelease, serializing >>

\* ------------------------------------------------------ the timer callback
\* a timer callback that never stops its one-shot session
SelfStop_Never(frequency, release) == FALSE

\* line 103: if (!frequency && release)
SelfStop(frequency, release) == frequency = 0 /\ release

\* a timer that waits for the callback's promise before it fires again
MayFire_Chained(s) == sessions[s].interval = "armed" /\ serializing[s] = 0

\* lines 102 and 111: setInterval / setTimeout fire the async callback while
\* the timer is set, whatever became of the promises of earlier firings
MayFire(s) == sessions[s].interval = "armed"

\* lines 102-107: the timer of session s fires; the callback runs up to
\* "await stats.serialize()"
Tick(s) ==
    /\ built
    /\ s \in 1..Len(sessions)
    /\ MayFire(s)
    /\ hist.fired < MaxTicks
    /\ LET stop == SelfStop(sessions[s].frequency, sessions[s].release)
           ss == IF stop THEN RelSessions(s) ELSE sessions
           h == IF stop THEN RelHist(s) ELSE hist
       IN
        /\ sessions' =
            IF Repeats(sessions[s].frequency) THEN ss
            ELSE [ss EXCEPT ![s].interval = IF @ = "armed" THEN "fired" ELSE @]
        /\ reporting' = IF stop THEN RelReporting(s) ELSE reporting
        /\ ws' = IF stop THEN RelWs(s) ELSE ws
        /\ aborted' = IF stop THEN RelAborted(s) ELSE aborted
        /\ requests' = IF stop THEN requests \ RelCancelled(s) ELSE requests
        /\ serializing' = [serializing EXCEPT ![s] = @ + 1]
        /\ hist' = [h EXCEPT !.fired = @ + 1, !.ticks = [@ EXCEPT ![s] = @ + 1]]
        /\ last' = IF stop THEN Released("tick", s)
                   ELSE [Quiet EXCEPT !.op = "tick", !.s = s]
    /\ UNCHANGED << built, url, fetch, onRelease >>

\* ------------------------------------------------------------------ _send
\* a catch that rethrows whatever serialize() rejected with
Swallowed_Nothing(outcome) == FALSE

\* a catch that drops every rejection
Swallowed_Everything(outcome) == TRUE

\* lines 122-126: a rejection with a falsy value is swallowed, any other rethrown
Swallowed(outcome) == outcome.kind = "notready"

\* every payload labelled as JSON
MimeType_Json(data) == "application/json"

\* lines 130-139: the content type, chosen from the payload's type
MimeType(data) ==
    CASE data.type = "ArrayBuffer" -> "application/octet-stream"
      [] data.type = "string" -> "text/plain"
      [] OTHER -> "application/json"

\* JSON.stringify(data): a string holding the value's JSON text
JSONStringify(data) == [type |-> "string", val |-> <<"{">> \o data.val \o <<"}">>]

\* lines 130-139: the body, the payload itself or its JSON text
Body(data) ==
    IF data.type = "ArrayBuffer" \/ data.type = "string"
    THEN data
    ELSE JSONStringify(data)

\* line 143: if (this._ws.closed)
NeedsOpen(w) == w.closed

\* a send that leaves the queue as it is
EraseQueueing_Keep(queueing) == queueing

\* line 147: this._ws.queueing.length = 0
EraseQueueing(queueing) == << >>

\* a send that never aborts the previous request
AbortPrevious_Never(f) == FALSE

\* line 151: if (this._fetch)
AbortPrevious(f) == f # 0

\* a send that keeps the AbortController it has
NewController_Reuse(f, fresh) == IF f # 0 THEN f ELSE fresh

\* line 155: this._fetch = new AbortController(), fresh the new controller
NewController(f, fresh) == fresh

\* lines 108-110: the catch of the timer callback
ErrorLogs(s) ==
    <<[sink |-> "onError", text |-> "error", name |-> sessions[s].stats]>>

\* line 148: this._ws.send(body), the content type is not handed over
WsFrame(message) == [message EXCEPT !.mime = ""]

\* lines 141-148: the WebSocket branch, for a body that was serialized
SendWs(s, data, message) ==
    LET w1 == IF NeedsOpen(ws) THEN WsOpen(ws) ELSE ws
        w2 == [w1 EXCEPT !.queueing = EraseQueueing(@)]
    IN
        IF WsSendThrows(w2)
        THEN /\ ws' = w2
             /\ hist' = hist
             /\ last' = [Quiet EXCEPT !.op = "settle", !.s = s,
                                      !.serialized = "data", !.out = "threw",
                                      !.data = data,
                                      !.opens = IF NeedsOpen(ws) THEN 1 ELSE 0,
                                      !.logs = ErrorLogs(s)]
        ELSE /\ ws' = WsSend(w2, message)
             /\ hist' = [hist EXCEPT !.sent = @ + 1]
             /\ last' = [Quiet EXCEPT !.op = "settle", !.s = s,
                                      !.serialized = "data", !.out = "sent",
                                      !.data = data,
                                      !.opens = IF NeedsOpen(ws) THEN 1 ELSE 0,
                                      !.message = WsFrame(message),
                                      !.wire = WsWire(w2, message)]

\* lines 149-164: the HTTP branch, for a body that was serialized
SendHttp(s, data, message) ==
    LET previous == AbortPrevious(fetch)
        ab == IF previous THEN AbortSignals(aborted, fetch) ELSE aborted
        gone == IF previous THEN Cancelled(requests, fetch) ELSE {}
        controller == NewController(fetch, fetch + 1)
    IN
        /\ fetch' = controller
        /\ aborted' = ab
        /\ requests' = Fetch(requests \ gone, controller, s, message, ab)
        /\ hist' = [hist EXCEPT !.sent = @ + 1]
        /\ last' = [Quiet EXCEPT !.op = "settle", !.s = s,
                                 !.serialized = "data", !.out = "sent",
                                 !.data = data,
                                 !.message = message,
                                 !.cancelled = {r.n : r \in gone} \cup
                                    (IF controller \in ab THEN {message.n} ELSE {})]

\* lines 107-110 and 118-165: stats.serialize() of a suspended tick of session s
\* settles and the rest of _send runs
Settle(s, outcome) ==
    /\ built
    /\ s \in 1..Len(sessions)
    /\ serializing[s] > 0
    /\ serializing' = [serializing EXCEPT ![s] = @ - 1]
    /\ IF outcome.kind # "data"
       THEN /\ last' = IF Swallowed(outcome)
                       THEN [Quiet EXCEPT !.op = "settle", !.s = s,
                                          !.serialized = outcome.kind,
                                          !.out = "skipped"]
                       ELSE [Quiet EXCEPT !.op = "settle", !.s = s,
                                          !.serialized = outcome.kind,
                                          !.out = "logged",
                                          !.logs = ErrorLogs(s)]
            /\ UNCHANGED << ws, fetch, aborted, requests, hist >>
       ELSE LET message == [n |-> hist.sent + 1,
                            body |-> Body(outcome.data),
                            mime |-> MimeType(outcome.data)]
            IN IF ws.defined
               THEN SendWs(s, outcome.data, message)
                        /\ UNCHANGED << fetch, aborted, requests >>
               ELSE SendHttp(s, outcome.data, message) /\ UNCHANGED ws
    /\ UNCHANGED << built, url, reporting, sessions, onRelease >>

\* ------------------------------------------------------------ environment
\* the WebSocket's open event: WebSocketReliable flushes its queue
WsOnOpen ==
    /\ ws.defined /\ ~ws.closed /\ ~ws.opened
    /\ ws' = [ws EXCEPT !.opened = TRUE, !.queueing = << >>]
    /\ last' = [Quiet EXCEPT !.op = "wsopen", !.wire = ws.queueing]
    /\ UNCHANGED << built, url, reporting, fetch, aborted, requests, sessions,
                    onRelease, serializing, hist >>

\* the WebSocket's close event (connection failed or lost):
\* WebSocketReliable closes itself
WsOnClose ==
    /\ ws.defined /\ ~ws.closed
    /\ ws' = WsClose(ws)
    /\ last' = [Quiet EXCEPT !.op = "wsclose"]
    /\ UNCHANGED << built, url, reporting, fetch, aborted, requests, sessions,
                    onRelease, serializing, hist >>

\* a request in flight completes (the body reached the server) or fails (network
\* error); the promise fetch() returned is neither awaited nor caught
FetchSettle(r, result) ==
    /\ r \in requests
    /\ requests' = requests \ {r}
    /\ last' = [Quiet EXCEPT !.op = "fetchsettle", !.s = r.s, !.out = result,
                             !.wire = IF result = "delivered" THEN <<r.n>> ELSE << >>]
    /\ UNCHANGED << built, url, reporting, ws, fetch, aborted, sessions,
                    onRelease, serializing, hist >>

\* ---------------------------------------------------------- specification
Next ==
    \/ \E stats \in Sources, frequency \in Frequencies : Report(stats, frequency)
    \/ \E stats \in Sources : Release(stats)
    \/ \E s \in SessionIds : Tick(s)
    \/ \E s \in SessionIds, outcome \in Outcomes : Settle(s, outcome)
    \/ WsOnOpen
    \/ WsOnClose
    \/ \E r \in requests, result \in {"delivered", "failed"} : FetchSettle(r, result)

Spec == Init /\ [][Next]_vars

\* construction from any scheme, followed by the starting and the stopping of
\* sessions on what was constructed
ConstructNext ==
    \/ \E stats \in Sources, frequency \in Frequencies : Report(stats, frequency)
    \/ \E stats \in Sources : Release(stats)

ConstructSpec == ConstructInit /\ [][ConstructNext]_vars

\* ------------------------------------------------------------ properties
\* the sessions that have not stopped
Active == {s \in 1..Len(sessions) : sessions[s].release}

\* the session of the step just taken ran its release closure
Invoked == last.out \in {"stop", "noop"}

\* the decrements made by the sessions 1..n
RECURSIVE Stops(_)
Stops(n) == IF n = 0 THEN 0 ELSE hist.stops[n] + Stops(n - 1)

\* the channel has something to close: a socket object, or an AbortController
HasHandle == ws.defined \/ fetch # 0

\* C1, as stated: a stop that leaves other sessions active performs no channel
\* close (no ws.close(), no closing abort()); the stop of the last active
\* session brings the reporting count to 0 and performs the close exactly once.
C1_CloseOnLastRelease ==
    last.out = "stop" =>
        IF Active # {}
        THEN last.closes = 0
        ELSE reporting = 0 /\ last.closes = 1

\* C1, amended: as above, but the last stop performs the close exactly once
\* where there is something to close (always on a socket channel; on an HTTP
\* channel once a request was issued) and makes no close call on an HTTP
\* channel that never issued a request (this._fetch is undefined).
C1_CloseOnLastReleaseIfHandle ==
    last.out = "stop" =>
        IF Active # {}
        THEN last.closes = 0
        ELSE reporting = 0 /\ last.closes = (IF HasHandle THEN 1 ELSE 0)

\* two sessions were started, both have stopped, the second stop closed
C1_Witness ==
    /\ Len(sessions) = 2
    /\ last.out = "stop"
    /\ Active = {}
    /\ last.closes = 1
    /\ hist.closed = 1

\* C2: stop is idempotent.  Over the whole run a session decrements the
\* reporting count at most once; the invocation that stops it decrements the
\* count by one, emits one stop log and makes at most one close call; every
\* later invocation of its release closure decrements nothing, logs nothing,
\* closes nothing and leaves count, timers and channel as they are.
C2_StopIdempotent ==
    /\ [](\A s \in 1..Len(sessions) :
            hist.stops[s] = IF sessions[s].release THEN 0 ELSE 1)
    /\ [][last'.out = "stop" =>
            /\ sessions[last'.s].release
            /\ reporting' = reporting - 1
            /\ last'.logs = <<[sink |-> "onLog", text |-> "Stop",
                               name |-> sessions[last'.s].stats]>>
            /\ last'.closes <= 1]_vars
    /\ [][last'.out = "noop" =>
            /\ ~sessions[last'.s].release
            /\ UNCHANGED << reporting, sessions, ws, fetch, aborted, requests,
                            serializing >>
            /\ last'.logs = << >>
            /\ last'.closes = 0
            /\ last'.cancelled = {}]_vars

\* the release closure of a stopped session was invoked again, while another
\* session is active and a tick is suspended
C2_Witness ==
    /\ last.op = "release"
    /\ last.out = "noop"
    /\ reporting = 1
    /\ \E s \in SessionIds : serializing[s] > 0

\* C3: the reporting count is never negative and equals the number of report()
\* calls minus the number of stops performed, which is the number of sessions
\* still active; it is 0 when no report() call was made.
C3_ReportingCountsActive ==
    /\ reporting >= 0
    /\ reporting = Len(sessions) - Stops(MaxSessions)
    /\ reporting = Cardinality(Active)
    /\ (Len(sessions) = 0 => reporting = 0)

\* two report() calls, one session stopped, one active
C3_Witness ==
    /\ Len(sessions) = 2
    /\ Stops(MaxSessions) = 1
    /\ reporting = 1

\* C4: a frequency-0 session fires at most one tick (one serialize+send
\* attempt); once that tick has run to its end the session is stopped, its timer
\* is spent and the reporting count no longer counts it: the count is the number
\* of the other sessions still active, i.e. the value before the report() call
\* changed only by what other sessions did since.
C4_OneShot ==
    \A s \in 1..Len(sessions) :
        sessions[s].frequency = 0 =>
            /\ hist.ticks[s] <= 1
            /\ serializing[s] <= 1
            /\ (hist.ticks[s] = 1 /\ serializing[s] = 0 =>
                    /\ ~sessions[s].release
                    /\ sessions[s].interval # "armed"
                    /\ hist.stops[s] = 1
                    /\ reporting = Cardinality(Active \ {s}))

\* the only session, of frequency 0, has made its attempt and the count is
\* back at 0, the value before its report() call
C4_Witness ==
    /\ Len(sessions) = 1
    /\ sessions[1].frequency = 0
    /\ hist.ticks[1] = 1
    /\ serializing[1] = 0
    /\ last.op = "settle"
    /\ reporting = 0

\* C5: a periodic session (frequency > 0) keeps its timer armed, and so keeps
\* firing ticks, as long as its stats object has not fired the release signal;
\* once the stats object has fired it, the session's timer is cancelled, so
\* that no further tick of the session fires.
C5_ReleaseCancelsTimer ==
    \A s \in 1..Len(sessions) :
        sessions[s].frequency # 0 =>
            IF s \in hist.signalled
            THEN sessions[s].interval = "cleared"
            ELSE sessions[s].interval = "armed"

\* C6: a channel close is made only by a stop that brings the reporting count
\* to 0, with no session left active; no settling tick (whether it sent, was not
\* ready or ended in an error log) makes one.
C6_CloseOnlyAtZero ==
    /\ (last.closes > 0 =>
            /\ last.out = "stop"
            /\ reporting = 0
            /\ Active = {})
    /\ (last.op = "settle" => last.closes = 0)

\* a stop closed the channel while ticks of the stopped sessions are suspended
C6_Witness ==
    /\ last.closes = 1
    /\ Len(sessions) = 2
    /\ \E s \in SessionIds : serializing[s] > 0

\* C7: the Telemetry is reusable after a close.  Every report() increments the
\* count; every tick whose serialize() resolved hands its message to the
\* channel: on a socket channel the socket is not closed afterwards (it was
\* opened if it was closed) and the message is queued or went on the wire; on
\* an HTTP channel this._fetch is a new AbortController that is not aborted and
\* the request issued with it is in flight, not cancelled.
C7_ReusableAfterClose ==
    /\ [][last'.op = "report" => reporting' = reporting + 1]_vars
    /\ [](last.op = "settle" /\ last.serialized = "data" =>
            /\ last.out = "sent"
            /\ last.message.n = hist.sent
            /\ IF ws.defined
               THEN /\ ~ws.closed
                    /\ \/ ws.queueing = <<last.message.n>>
                       \/ last.wire = <<last.message.n>>
               ELSE /\ fetch # 0
                    /\ fetch \notin aborted
                    /\ [token |-> fetch, n |-> last.message.n, s |-> last.s] \in requests
                    /\ last.message.n \notin last.cancelled)
    /\ [][last'.op = "settle" /\ last'.serialized = "data" /\ ~ws.defined =>
            fetch' \notin aborted \cup {fetch}]_vars
    /\ [][last'.op = "settle" /\ last'.serialized = "data" /\ ws.defined =>
            /\ last'.opens = (IF ws.closed THEN 1 ELSE 0)
            /\ (ws.closed => ~ws'.closed /\ ~ws'.opened)]_vars

\* the first session used the channel and stopped, which closed it; the
\* second session was started afterwards and its tick has sent
C7_Witness ==
    /\ Len(sessions) = 2
    /\ hist.closed = 1
    /\ hist.sent = 2
    /\ ~sessions[1].release
    /\ sessions[2].release
    /\ last.op = "settle" /\ last.s = 2 /\ last.out = "sent"
    /\ IF ws.defined
       THEN last.opens = 1 /\ ws.queueing = <<2>>
       ELSE 1 \in aborted /\ requests = {[token |-> 2, n |-> 2, s |-> 2]}

\* C8: on an HTTP channel at most one request is in flight, it is the one of
\* the message sent last and its AbortController is the current one, not
\* aborted; a send cancels the request that was in flight before it issues its
\* own; a message that reaches the destination is the last one sent so far.
C8_OneRequestInFlight ==
    ~ws.defined =>
        /\ Cardinality(requests) <= 1
        /\ \A r \in requests :
                r.token = fetch /\ r.token \notin aborted /\ r.n = hist.sent
        /\ (last.op = "fetchsettle" /\ last.out = "delivered" =>
                last.wire = <<hist.sent>>)
        /\ (last.op = "settle" /\ last.out = "sent" =>
                requests = {[token |-> fetch, n |-> last.message.n, s |-> last.s]})

\* a send was issued while the previous request was in flight and cancelled it
C8_Witness ==
    /\ ~ws.defined
    /\ last.op = "settle" /\ last.out = "sent"
    /\ last.message.n = 2
    /\ last.cancelled = {1}
    /\ \E s \in SessionIds : requests = {[token |-> 2, n |-> 2, s |-> s]}

\* C9: on a socket channel a send leaves the socket not closed (it opens it
\* when it is closed) and erases the queue before it hands over the message:
\* the queue never holds more than one message, the one it holds is the last
\* one sent, and a flush never puts more than one message on the wire.
C9_QueueHoldsLatest ==
    ws.defined =>
        /\ Len(ws.queueing) <= 1
        /\ (ws.queueing # << >> => ws.queueing = <<hist.sent>>)
        /\ Len(last.wire) <= 1
        /\ (last.op = "wsopen" /\ last.wire # << >> => last.wire = <<hist.sent>>)
        /\ (last.op = "settle" /\ last.serialized = "data" =>
                last.out = "sent" /\ ~ws.closed)

\* a second send found the first message still queued and replaced it
C9_Witness ==
    /\ ws.defined
    /\ last.op = "settle" /\ last.out = "sent"
    /\ hist.sent = 2
    /\ hist.closed = 0
    /\ ws.queueing = <<2>>

C10_WitnessSocket ==
    /\ last.op = "settle"
    /\ last.serialized = "notready"
    /\ ws.queueing # << >>

\* C11: a tick whose serialize() rejects with an error that is not the "not
\* ready" signal emits exactly one error log, tagged with the name of the
\* session's source, and transmits nothing: the callback ends there, the
\* reporting count, the sessions and their timers, the socket, the controller
\* and the requests in flight stay as they were, and nothing is closed.
C11_SerializeErrorIsLogged ==
    [][last'.op = "settle" /\ last'.serialized = "error" =>
            /\ last'.out = "logged"
            /\ last'.logs = << [sink |-> "onError", text |-> "error",
                                name |-> sessions[last'.s].stats] >>
            /\ last'.message = NoMessage
            /\ last'.wire = << >>
            /\ last'.cancelled = {}
            /\ last'.opens = 0
            /\ last'.closes = 0
            /\ UNCHANGED << reporting, sessions, onRelease, ws, fetch, aborted,
                            requests, hist >>]_vars

\* serialize() of a periodic session failed; the session is still reporting
\* and its timer is still set
C11_Witness ==
    /\ last.op = "settle" /\ last.serialized = "error"
    /\ sessions[last.s].frequency > 0
    /\ sessions[last.s].release
    /\ MayFire(last.s)
    /\ reporting > 0

\* C12: every transmission failure of a tick (a send the socket refuses, a
\* request that fails on the network, a request that is aborted) emits an
\* error log tagged with the name of the source of the session that sent it,
\* and closes nothing.
C12_TransmissionFailureIsLogged ==
    /\ (last.out \in {"threw", "failed"} =>
            /\ last.logs = << [sink |-> "onError", text |-> "error",
                               name |-> sessions[last.s].stats] >>
            /\ last.closes = 0)
    /\ (last.cancelled # {} =>
            \E i \in DOMAIN last.logs :
                last.logs[i].sink = "onError" /\ last.logs[i].text = "error")

\* C13 as stated: whatever the channel, a payload that was serialized is sent
\* with a body and a content type that depend on its type alone: a binary
\* blob unchanged as application/octet-stream, a string unchanged as
\* text/plain, any other value as its JSON text as application/json.
C13_EncodingByTypeOnAnyChannel ==
    last.op = "settle" /\ last.out = "sent" =>
        /\ (last.data.type = "ArrayBuffer" =>
                /\ last.message.body = last.data
                /\ last.message.mime = "application/octet-stream")
        /\ (last.data.type = "string" =>
                /\ last.message.body = last.data
                /\ last.message.mime = "text/plain")
        /\ (last.data.type \notin {"ArrayBuffer", "string"} =>
                /\ last.message.body =
                        [type |-> "string",
                         val |-> <<"{">> \o last.data.val \o <<"}">>]
                /\ last.message.mime = "application/json")

\* C13: the body that is sent depends on the type of the payload alone, on
\* either channel: a binary blob and a string unchanged, any other value as
\* its JSON text.  The content type goes with the body on an HTTP channel
\* only (application/octet-stream, text/plain, application/json in that
\* order); a socket is handed the body and nothing else.
C13_EncodingByType ==
    last.op = "settle" /\ last.out = "sent" =>
        /\ (last.data.type = "ArrayBuffer" =>
                /\ last.message.body = last.data
                /\ (~ws.defined =>
                        last.message.mime = "application/octet-stream"))
        /\ (last.data.type = "string" =>
                /\ last.message.body = last.data
                /\ (~ws.defined => last.message.mime = "text/plain"))
        /\ (last.data.type \notin {"ArrayBuffer", "string"} =>
                /\ last.message.body =
                        [type |-> "string",
                         val |-> <<"{">> \o last.data.val \o <<"}">>]
                /\ (~ws.defined => last.message.mime = "application/json"))
        /\ (ws.defined => last.message.mime = "")

\* an object was serialized on an HTTP channel and went out as its JSON text
C13_Witness ==
    /\ ~ws.defined
    /\ last.op = "settle" /\ last.out = "sent"
    /\ last.data.type = "object"
    /\ last.message.body # last.data
    /\ last.message.mime = "application/json"
    /\ \E r \in requests : r.n = last.message.n

\* a binary blob was serialized on a socket channel and handed over unchanged
C13_WitnessSocket ==
    /\ ws.defined
    /\ last.op = "settle" /\ last.out = "sent"
    /\ last.data.type = "ArrayBuffer"
    /\ last.message.body = last.data
    /\ ws.queueing = <<last.message.n>>

\* C14: the scheme decides the channel, once: "ws:" and "wss:" give a
\* Telemetry with a socket, "http:" and "https:" one without a socket, that
\* will use fetch, and any other scheme makes the constructor throw, so there
\* is no Telemetry and nothing ever runs.  Right after a construction that
\* succeeded the count is 0, the socket (if any) is closed with nothing
\* queued, there is no AbortController and no request, and no session.
C14_SchemeDecidesChannel ==
    /\ (url \in {<<"w", "s", ":">>, <<"w", "s", "s", ":">>} =>
            built /\ ws.defined)
    /\ (url \in {<<"h", "t", "t", "p", ":">>, <<"h", "t", "t", "p", "s", ":">>} =>
            built /\ ~ws.defined)
    /\ (url \in {<<"f", "t", "p", ":">>, <<"f", "i", "l", "e", ":">>} =>
            /\ ~built
            /\ ~ws.defined
            /\ sessions = << >>
            /\ last = Quiet)
    /\ (last.op = "init" =>
            /\ reporting = 0
            /\ sessions = << >>
            /\ ws.closed /\ ~ws.opened /\ ws.queueing = << >>
            /\ fetch = 0 /\ aborted = {} /\ requests = {}
            /\ last.opens = 0 /\ last.message = NoMessage /\ last.wire = << >>)

\* a Telemetry was constructed for "wss:" and has a socket, still closed
C14_Witness ==
    /\ url = <<"w", "s", "s", ":">>
    /\ built
    /\ ws.defined /\ ws.closed
    /\ last.op = "init"

\* the constructor threw for "file:"
C14_WitnessUnsupported ==
    /\ url = <<"f", "i", "l", "e", ":">>
    /\ ~built

\* a Telemetry constructed for "http:" started a session
C14_WitnessHttp ==
    /\ url = <<"h", "t", "t", "p", ":">>
    /\ ~ws.defined
    /\ reporting = 1

\* C15: a frequency-0 session stops itself after its one serialize-and-send
\* attempt has completed, not before: while the attempt is under way and the
\* source has not fired its release signal the session has not stopped, and
\* the callback that performs the stop leaves no attempt of the session
\* under way.
C15_StopAfterAttempt ==
    /\ \A s \in 1..Len(sessions) :
            (/\ sessions[s].frequency = 0
             /\ serializing[s] > 0
             /\ s \notin hist.signalled) => sessions[s].release
    /\ (last.op = "tick" /\ last.out = "stop" => serializing[last.s] = 0)

\* C16: nothing is transmitted for a session that has stopped: a callback
\* that resumes after serialize() for a session that is not active any more
\* opens no socket, erases no queue, hands over no message, issues no request
\* and cancels none.
C16_NoTransmissionAfterStop ==
    [][last'.op = "settle" /\ ~sessions[last'.s].release =>
            /\ last'.out # "sent"
            /\ last'.message = NoMessage
            /\ last'.opens = 0
            /\ last'.cancelled = {}
            /\ UNCHANGED << ws, fetch, aborted, requests >>]_vars

\* C17: when no session is active, the count is 0 and no tick is under way,
\* the channel is closed: the socket is closed and no request is in flight.
C17_ClosedWhenIdle ==
    (/\ sessions # << >>
     /\ Active = {}
     /\ reporting = 0
     /\ \A s \in SessionIds : serializing[s] = 0)
        => /\ (ws.defined => ws.closed)
           /\ requests = {}

\* C18: ticks do not wait on each other.  A timer that is set can fire
\* whatever is pending, be it an earlier tick of its own session or a tick
\* of another one (up to the number of firings explored); a pending
\* serialize() can settle, with any payload, whatever else is pending; and a
\* payload that was serialized is transmitted at once.
C18_TicksIndependent ==
    /\ \A s \in 1..Len(sessions) :
            /\ (sessions[s].interval = "armed" /\ hist.fired < MaxTicks =>
                    ENABLED Tick(s))
            /\ (serializing[s] > 0 =>
                    \A d \in Payloads :
                        ENABLED Settle(s, [kind |-> "data", data |-> d]))
    /\ (last.op = "settle" /\ last.serialized = "data" =>
            last.out = "sent" /\ last.message # NoMessage)

\* serialize() of the first session has not settled, and the tick of the
\* second session, fired after it, has serialized and sent
C18_Witness ==
    /\ Len(sessions) = 2
    /\ serializing[1] > 0
    /\ hist.ticks[2] > 0
    /\ last.op = "settle" /\ last.s = 2 /\ last.out = "sent"

\* the timer of a periodic session fired again while serialize() of its
\* earlier tick had not settled
C18_WitnessLaterTick ==
    /\ last.op = "tick"
    /\ sessions[last.s].frequency > 0
    /\ serializing[last.s] = 2

\* C19: every session can be stopped through the release signal of its
\* source, also when a source was handed to report() more than once: once
\* the source of every session has fired its release signal (and no
\* frequency-0 timeout is still to fire, which would stop its session by
\* itself), no timer is set any more, no session is active and the
\* reporting count is 0.
C19_ReleaseStopsEverySession ==
    (/\ sessions # << >>
     /\ \A s \in 1..Len(sessions) :
            /\ s \in hist.signalled
            /\ (sessions[s].frequency = 0 => ~MayFire(s)))
        => /\ \A s \in 1..Len(sessions) : ~MayFire(s)
           /\ Active = {}
           /\ reporting = 0


====
